---- MODULE Spec2Model ----
(***************************************************************************)
(* Model of the tikv-server node bootstrap and lifecycle controller        *)
(* (src/src/bin/tikv-server.rs: main and run_raft_server).                 *)
(*                                                                         *)
(* Several server processes bootstrap against the same data directory.    *)
(* Each process walks through the statements of main and run_raft_server  *)
(* in program order; every fallible call either succeeds or ends the      *)
(* process through exit_with_err or a panic.  The only state shared by     *)
(* the processes is the OS-level exclusive lock on <data_dir>/LOCK.        *)
(*                                                                         *)
(* Further specifications model the library code the server relies on:    *)
(* the wall-clock jump monitor of src/src/util/time.rs (SpecMonitor,       *)
(* SpecMonitorLive), its Instant arithmetic (SpecInstant) and its Duration *)
(* conversions (SpecDuration); SpecSizing models how main sizes the        *)
(* end-point pool and the block caches from the host's CPUs and memory,    *)
(* and SpecOptions how it resolves the options that both the command line  *)
(* and the config file can give; SpecLookup models lookup on a parsed      *)
(* config and SpecMetric the start of the metrics pusher.                  *)
(***************************************************************************)
EXTENDS Integers, Sequences, FiniteSets, TLC

\* Number of server processes started against the same data directory.
NumProcs ==
    2

\* Cluster ids the Placement Driver may return are 0..MaxClusterId.
MaxClusterId ==
    1

\* tikv::server::DEFAULT_CLUSTER_ID, the "unset" sentinel.
DEFAULT_CLUSTER_ID ==
    0

\* The status passed to process::exit by exit_with_err.
EXIT_FAILURE ==
    1

\* util::time::DEFAULT_WAIT_MS, the worker's sleep between its two samples.
DEFAULT_WAIT_MS ==
    100

\* The test clock of test_time_monitor is 2 s behind after its first sample.
TEST_JUMP_BACK_MS ==
    2000

\* An arbitrary clock returns a time in 0..MaxTime.
MaxTime ==
    2

\* The worker runs at most MaxCycles detection cycles.
MaxCycles ==
    2

\* A sleep of DEFAULT_WAIT_MS returns after 1..MaxSleepFactor times as long.
MaxSleepFactor ==
    2

\* util::time::NANOSECONDS_PER_SECOND
NANOSECONDS_PER_SECOND ==
    1000000000

\* 2^32 = U32_WRAP_SECS * NANOSECONDS_PER_SECOND + U32_WRAP_NANOS: what a
\* negative i32 gains when it is cast to u32.
U32_WRAP_SECS ==
    4

U32_WRAP_NANOS ==
    294967296

\* Sizes are counted in KiB, the unit of mem_info(): KB bytes are one KiB,
\* and MB and GB are the program's constants divided by KB.
MB ==
    1024

GB ==
    1024 * MB

RAFTCF_MIN_MEM ==
    256 * MB

RAFTCF_MAX_MEM ==
    2 * GB

LOCKCF_MIN_MEM ==
    256 * MB

LOCKCF_MAX_MEM ==
    GB

\* [default cf, write cf, raft cf, lock cf] = [0.25, 0.15, 0.02, 0.02],
\* as fractions.
DEFAULT_BLOCK_CACHE_RATIO ==
    <<[num |-> 1, den |-> 4], [num |-> 3, den |-> 20],
      [num |-> 1, den |-> 50], [num |-> 1, den |-> 50]>>

\* metric.interval is within -MaxInterval..MaxInterval.
MaxInterval ==
    2

\* Store ids are 1..MaxStoreId.
MaxStoreId ==
    11

\* Config files nest tables at most MaxDepth deep.
MaxDepth ==
    2

\* Keys have at most MaxKeyParts parts between dots.
MaxKeyParts ==
    3

\* A command line and a config file give at most MaxSettings of the
\* options' flags and keys between them.
MaxSettings ==
    3

\* Hosts have 1..MaxCpu CPUs.
MaxCpu ==
    32

\* Hosts have 1..MaxMemSteps times 256 MiB, 16 GiB or 1 000 001 KiB of memory.
MaxMemSteps ==
    8

\* A u64 is written in digits of base LimbBase, most significant first and
\* without leading zeros; zero is the empty sequence.
LimbBase ==
    1000

\* Durations of 0..MaxSmallSecs whole seconds are converted, besides those
\* at the limits of u64.
MaxSmallSecs ==
    2

\* Instants and Durations have 0..MaxSec whole seconds.
MaxSec ==
    1

Procs ==
    1..NumProcs

ClusterIds ==
    0..MaxClusterId

VARIABLES
    pc,          \* pc[p]: the statement process p executes next
    log,         \* log[p][s]: the ordinal at which p executed statement s, or 0
    steps,       \* steps[p]: the number of statements p has executed
    fatal,       \* fatal[p]: the statement that ended p abnormally, or "none"
    exitCode,    \* exitCode[p]: the process exit status, -1 while p runs
    hook,        \* hook[p]: the exit-1 panic hook is installed
    cluster_id,  \* cluster_id[p]: value returned by pd_client.get_cluster_id()
    holders,     \* processes holding the exclusive lock on <data_dir>/LOCK
    f,           \* f[p]: the lock file handle of run_raft_server
    engine,      \* engine[p]: the storage engine under <data_dir>/db
    storage,     \* storage[p]: the transactional storage facade
    worker,      \* worker[p]: the address resolver worker
    server,      \* server[p]: the network server
    trans,       \* trans[p]: the transport obtained from the server
    node,        \* node[p]: the node registry
    nodeTrans,   \* nodeTrans[p]: the transport handed to node.start
    monitor      \* monitor[p]: the wall-clock jump monitor (_m in main)

\* State of util::time::Monitor: its worker thread and its owner.
VARIABLES
    clockMode,   \* the injected clock: "any" time source, or the "test" clock
    triggered,   \* the test clock has been sampled once
    wall,        \* the wall clock behind the test clock, in milliseconds
    wpc,         \* the statement the monitor worker executes next
    before,      \* the worker's sample taken before the sleep
    after,       \* the worker's sample taken after the sleep
    rx,          \* quit tokens sent and not yet received
    handle,      \* Monitor.handle: "some" join handle or "none"
    dpc,         \* the owner: "live", or its position in Drop::drop
    dropLog,     \* the error Drop::drop logged, or "none"
    cycles,      \* detection cycles the worker has completed
    calls,       \* invocations of on_jumped
    jumps,       \* completed cycles whose second sample was earlier
    lastCycle,   \* the samples and the outcome of the last completed cycle
    atSend       \* where the worker was when tx.send(true) succeeded

\* Instant arithmetic of util::time: the operands and the last result.
VARIABLES
    ia,          \* an Instant
    ib,          \* another Instant
    idur,        \* a Duration
    iop,         \* the expression evaluated: "none" before any
    ires         \* its value

\* Duration conversions of util::time: the argument and the last result.
VARIABLES
    cd,          \* a Duration: whole seconds (a u64) and subsecond nanoseconds
    cbuild,      \* the build: overflow "checked" or "unchecked"
    cop,         \* the conversion applied: "none" before any
    cres         \* its outcome

\* Sizing from host facts: what main reads and what it resolves.
VARIABLES
    total_cpu_num,          \* cpu_num()
    total_mem,              \* mem_info().total, in KiB
    config,                 \* the size settings present in the config file
    opc,                    \* the sizing step main executes next
    end_point_concurrency,  \* cfg.end_point_concurrency, Unset before it is set
    block_cache,            \* per column family, the block cache size in KiB
    compaction_pri          \* per column family, the compaction priority set

\* Option resolution: the command line and the config file, and what main
\* resolves from them.
VARIABLES
    settings,    \* the flags and the config keys that are given, with values
    rpc,         \* the resolution step main executes next
    effective,   \* per option, the value resolved and where it came from
    odiag        \* the diagnostic of the fatal exit, if any

\* lookup on a config: the arguments and the result.
VARIABLES
    lconfig,     \* the toml::Value main holds as its config
    lkey,        \* the key, split at '.'
    lop,         \* "lookup" once lookup has been called, "none" before
    lres         \* what lookup returned

\* The metrics pusher: the metric section of the config, the store, and
\* what initial_metric does with them.
VARIABLES
    metric,      \* metric.interval, metric.address and metric.job in the file
    node_id,     \* the id of the store
    mpc,         \* "initial_metric" before the call, then "returned" or "exited"
    pusher       \* the pusher run_prometheus has started, if any

procVars == <<pc, log, steps>>
termVars == <<fatal, exitCode>>
osVars   == <<holders, f, engine>>
mainVars == <<hook, cluster_id, monitor>>
compVars == <<storage, worker, server, trans, node, nodeTrans>>
bootVars == <<pc, log, steps, fatal, exitCode, hook, cluster_id, holders, f, engine,
              storage, worker, server, trans, node, nodeTrans, monitor>>
monVars  == <<clockMode, triggered, wall, wpc, before, after, rx, handle,
              dpc, dropLog, cycles, calls, jumps, lastCycle, atSend>>
timeVars == <<ia, ib, idur, iop, ires>>
convVars == <<cd, cbuild, cop, cres>>
sizeVars == <<total_cpu_num, total_mem, config, opc, end_point_concurrency,
              block_cache, compaction_pri>>
optVars  == <<settings, rpc, effective, odiag>>
lookVars == <<lconfig, lkey, lop, lres>>
metVars  == <<metric, node_id, mpc, pusher>>
libVars  == <<monVars, timeVars, convVars, sizeVars, optVars, lookVars,
              metVars>>
vars     == <<bootVars, libVars>>

----------------------------------------------------------------------------
\* Helpers

\* The statements of main and run_raft_server, in program order.
Statements ==
    {"load_config", "init_log", "set_exit_hook", "check_system_config",
     "resolve_addr", "pd_endpoints", "pd_connect", "get_cluster_id",
     "host_facts", "build_cfg", "check_cluster_id", "time_monitor",
     "create_lock_file", "try_lock", "create_event_loop", "open_engine",
     "create_storage", "new_resolver", "snap_mgr", "server_new", "node_start",
     "initial_metric", "storage_start", "server_start", "handle_signal",
     "server_stop", "node_stop", "resolver_stop", "drop_locals",
     "drop_lock_file", "drop_monitor"}

\* The ordinal at which p executed statement s, 0 if it has not.
Pos(p, s) ==
    log[p][s]

\* p executes statement s now.
Record(p, s) ==
    /\ steps' = [steps EXCEPT ![p] = @ + 1]
    /\ log' = [log EXCEPT ![p][s] = steps[p] + 1]
    /\ UNCHANGED libVars

Ran(p, s) ==
    Pos(p, s) # 0

\* Statement a ran, and before statement b did (if b ran at all).
Before(p, a, b) ==
    Ran(p, b) => (Ran(p, a) /\ Pos(p, a) < Pos(p, b))

Alive(p) ==
    pc[p] # "exited"

\* Statement `from` completes and control falls through to `to`.
Advance(p, from, to) ==
    /\ pc[p] = from
    /\ pc' = [pc EXCEPT ![p] = to]
    /\ Record(p, from)

\* The process ends with status `code` while executing `from`: the OS closes
\* its files (releasing the file lock) and its engine; no stop() is called.
ProcessExit(p, from, code) ==
    /\ pc[p] = from
    /\ pc' = [pc EXCEPT ![p] = "exited"]
    /\ Record(p, from)
    /\ fatal' = [fatal EXCEPT ![p] = from]
    /\ exitCode' = [exitCode EXCEPT ![p] = code]
    /\ holders' = holders \ {p}
    /\ f' = [f EXCEPT ![p] = IF @ = "none" THEN "none" ELSE "closed"]
    /\ engine' = [engine EXCEPT ![p] = IF @ = "open" THEN "closed" ELSE @]
    /\ UNCHANGED <<mainVars, compVars>>

\* exit_with_err: log the message and process::exit(1).
exit_with_err(p, from) ==
    ProcessExit(p, from, EXIT_FAILURE)

\* A panic: with the exit hook installed the hook exits with status 1;
\* without it the main thread unwinds and the runtime exits with status 101.
Panic(p, from) ==
    ProcessExit(p, from, IF hook[p] THEN EXIT_FAILURE ELSE 101)

----------------------------------------------------------------------------
\* main

BootInit ==
    /\ pc = [p \in Procs |-> "load_config"]
    /\ log = [p \in Procs |-> [s \in Statements |-> 0]]
    /\ steps = [p \in Procs |-> 0]
    /\ fatal = [p \in Procs |-> "none"]
    /\ exitCode = [p \in Procs |-> -1]
    /\ hook = [p \in Procs |-> FALSE]
    /\ cluster_id = [p \in Procs |-> DEFAULT_CLUSTER_ID]
    /\ holders = {}
    /\ f = [p \in Procs |-> "none"]
    /\ engine = [p \in Procs |-> "none"]
    /\ storage = [p \in Procs |-> "none"]
    /\ worker = [p \in Procs |-> "none"]
    /\ server = [p \in Procs |-> "none"]
    /\ trans = [p \in Procs |-> "none"]
    /\ node = [p \in Procs |-> "none"]
    /\ nodeTrans = [p \in Procs |-> "none"]
    /\ monitor = [p \in Procs |-> "none"]

\* A monitor that has just been constructed, with the test clock injected.
MonitorNew(mode) ==
    /\ clockMode = mode
    /\ triggered = FALSE
    /\ wall = TEST_JUMP_BACK_MS
    /\ wpc = "try_recv"
    /\ before = 0
    /\ after = 0
    /\ rx = <<>>
    /\ handle = "some"
    /\ dpc = "live"
    /\ dropLog = "none"
    /\ cycles = 0
    /\ calls = 0
    /\ jumps = 0
    /\ lastCycle = [n |-> 0, before |-> 0, after |-> 0, called |-> FALSE]
    /\ atSend = [sent |-> FALSE, wpc |-> "try_recv", cycles |-> 0,
                 calls |-> 0]

\* Operands of Instant arithmetic, nothing evaluated yet.
InstantOperands(a, b, d) ==
    /\ ia = a
    /\ ib = b
    /\ idur = d
    /\ iop = "none"
    /\ ires = [kind |-> "none", tag |-> "-", sec |-> 0, nsec |-> 0]

ZeroInstant ==
    [tag |-> "Monotonic", sec |-> 0, nsec |-> 0]

ZeroDuration ==
    [secs |-> 0, nanos |-> 0]

\* The argument of a Duration conversion, nothing converted yet.
ConversionArgument(secs, nanos, build) ==
    /\ cd = [secs |-> secs, nanos |-> nanos]
    /\ cbuild = build
    /\ cop = "none"
    /\ cres = [kind |-> "none", value |-> <<>>]

\* No value: a key absent from the config file, a field not yet set.
Unset ==
    -1

\* The column families, in the order run_raft_server builds their options.
CFs ==
    <<"defaultcf", "lockcf", "writecf", "raftcf">>

CfNames ==
    {CFs[i] : i \in 1..Len(CFs)}

\* A host and a config file, main about to check the cache ratios.
HostFactsRead(cpus, mem, file) ==
    /\ total_cpu_num = cpus
    /\ total_mem = mem
    /\ config = file
    /\ opc = "sanitize"
    /\ end_point_concurrency = Unset
    /\ block_cache = [cf \in CfNames |-> Unset]
    /\ compaction_pri = [cf \in CfNames |-> Unset]

EmptyConfig ==
    [end_point |-> Unset, cache |-> [cf \in CfNames |-> Unset],
     pri |-> [cf \in CfNames |-> Unset]]

\* The options that a flag and the config file can both give.
Options ==
    {"log-level", "log-file", "addr", "pd-endpoints", "capacity",
     "advertise-addr", "labels", "data-dir"}

\* Option<T>::None, and a value of a TOML type read from `source`.
None ==
    [type |-> "None", text |-> <<>>, source |-> "none"]

Value(type, text, source) ==
    [type |-> type, text |-> text, source |-> source]

\* main has parsed the command line and the config file given by `given`.
ArgsParsed(given) ==
    /\ settings = given
    /\ rpc = "init_log"
    /\ effective = [o \in Options |-> None]
    /\ odiag = [option |-> "-", kind |-> "none"]

OptionsIdle ==
    ArgsParsed(<<>>)

\* toml::Value::Integer(0), which main uses when no config file is given.
NoConfig ==
    [kind |-> "Integer", entries |-> <<>>]

\* A config and a key, lookup not yet called.
LookupArguments(value, key) ==
    /\ lconfig = value
    /\ lkey = key
    /\ lop = "none"
    /\ lres = [found |-> FALSE, value |-> NoConfig]

LookupIdle ==
    LookupArguments(NoConfig, <<"a">>)

NoPusher ==
    [started |-> FALSE, interval |-> <<>>, address |-> <<>>, job |-> <<>>]

\* The node has started; initial_metric is about to be called.
NodeStarted(section, id) ==
    /\ metric = section
    /\ node_id = id
    /\ mpc = "initial_metric"
    /\ pusher = NoPusher

NoMetricSection ==
    [interval |-> [given |-> FALSE, value |-> 0],
     address |-> [type |-> "None", text |-> <<>>],
     job |-> [type |-> "None", text |-> <<>>]]

MetricIdle ==
    NodeStarted(NoMetricSection, 1)

MonitorIdle ==
    MonitorNew("any")

InstantIdle ==
    InstantOperands(ZeroInstant, ZeroInstant, ZeroDuration)

ConversionIdle ==
    ConversionArgument(<<>>, 0, "checked")

SizingIdle ==
    HostFactsRead(1, MB, EmptyConfig)

LibIdle ==
    /\ MonitorIdle
    /\ InstantIdle
    /\ ConversionIdle
    /\ SizingIdle
    /\ OptionsIdle
    /\ LookupIdle
    /\ MetricIdle

Init ==
    /\ BootInit
    /\ LibIdle

\* Open, read and parse the config file; each step is an expect().
LoadConfig(p) ==
    \E ok \in BOOLEAN :
        IF ok
        THEN /\ Advance(p, "load_config", "init_log")
             /\ UNCHANGED <<termVars, osVars, mainVars, compVars>>
        ELSE Panic(p, "load_config")

InitLog(p) ==
    \E ok \in BOOLEAN :
        IF ok
        THEN /\ Advance(p, "init_log", "set_exit_hook")
             /\ UNCHANGED <<termVars, osVars, mainVars, compVars>>
        ELSE exit_with_err(p, "init_log")

SetExitHook(p) ==
    /\ Advance(p, "set_exit_hook", "check_system_config")
    /\ hook' = [hook EXCEPT ![p] = TRUE]
    /\ UNCHANGED <<termVars, osVars, cluster_id, monitor, compVars>>

CheckSystemConfig(p) ==
    \E ok \in BOOLEAN :
        IF ok
        THEN /\ Advance(p, "check_system_config", "resolve_addr")
             /\ UNCHANGED <<termVars, osVars, mainVars, compVars>>
        ELSE exit_with_err(p, "check_system_config")

\* The listening address: flag, file value or default, then check_addr.
ResolveAddr(p) ==
    \E ok \in BOOLEAN :
        IF ok
        THEN /\ Advance(p, "resolve_addr", "pd_endpoints")
             /\ UNCHANGED <<termVars, osVars, mainVars, compVars>>
        ELSE exit_with_err(p, "resolve_addr")

\* The PD endpoints: expect("empty pd endpoints") and a panic per bad address.
PdEndpoints(p) ==
    \E ok \in BOOLEAN :
        IF ok
        THEN /\ Advance(p, "pd_endpoints", "pd_connect")
             /\ UNCHANGED <<termVars, osVars, mainVars, compVars>>
        ELSE Panic(p, "pd_endpoints")

\* RpcClient::new(&pd_endpoints)
PdConnect(p) ==
    \E ok \in BOOLEAN :
        IF ok
        THEN /\ Advance(p, "pd_connect", "get_cluster_id")
             /\ UNCHANGED <<termVars, osVars, mainVars, compVars>>
        ELSE exit_with_err(p, "pd_connect")

\* pd_client.get_cluster_id()
GetClusterId(p) ==
    \/ \E id \in ClusterIds :
        /\ Advance(p, "get_cluster_id", "host_facts")
        /\ cluster_id' = [cluster_id EXCEPT ![p] = id]
        /\ UNCHANGED <<termVars, osVars, hook, monitor, compVars>>
    \/ exit_with_err(p, "get_cluster_id")

\* cpu_num(), mem_info() and sanitize_memory_usage() (the fixed ratios sum
\* to 0.44, so its panic is never taken).
HostFacts(p) ==
    \E ok \in BOOLEAN :
        IF ok
        THEN /\ Advance(p, "host_facts", "build_cfg")
             /\ UNCHANGED <<termVars, osVars, mainVars, compVars>>
        ELSE exit_with_err(p, "host_facts")

\* build_cfg, get_store_labels and get_data_and_backup_dirs: a bad value is
\* an exit_with_err, a negative integer an assert! panic.
BuildCfg(p) ==
    \E outcome \in {"ok", "err", "panic"} :
        CASE outcome = "ok" ->
                /\ Advance(p, "build_cfg", "check_cluster_id")
                /\ UNCHANGED <<termVars, osVars, mainVars, compVars>>
          [] outcome = "err" -> exit_with_err(p, "build_cfg")
          [] outcome = "panic" -> Panic(p, "build_cfg")

\* Mutant: the sentinel comparison is dropped.
CheckClusterId_unchecked(p) ==
    /\ Advance(p, "check_cluster_id", "time_monitor")
    /\ UNCHANGED <<termVars, osVars, mainVars, compVars>>

\* if cluster_id == DEFAULT_CLUSTER_ID { panic!(..) }
CheckClusterId(p) ==
    IF cluster_id[p] = DEFAULT_CLUSTER_ID
    THEN Panic(p, "check_cluster_id")
    ELSE /\ Advance(p, "check_cluster_id", "time_monitor")
         /\ UNCHANGED <<termVars, osVars, mainVars, compVars>>

\* Mutant: the monitor is not created.
StartTimeMonitor_skipped(p) ==
    /\ pc[p] = "time_monitor"
    /\ pc' = [pc EXCEPT ![p] = "create_lock_file"]
    /\ UNCHANGED <<log, steps, termVars, osVars, mainVars, compVars, libVars>>

\* let _m = TimeMonitor::default();
StartTimeMonitor(p) ==
    /\ Advance(p, "time_monitor", "create_lock_file")
    /\ monitor' = [monitor EXCEPT ![p] = "running"]
    /\ UNCHANGED <<termVars, osVars, hook, cluster_id, compVars>>

----------------------------------------------------------------------------
\* run_raft_server

\* File::create(lock_path)
CreateLockFile(p) ==
    \E ok \in BOOLEAN :
        IF ok
        THEN /\ Advance(p, "create_lock_file", "try_lock")
             /\ f' = [f EXCEPT ![p] = "open"]
             /\ UNCHANGED <<termVars, holders, engine, mainVars, compVars>>
        ELSE exit_with_err(p, "create_lock_file")

\* Mutant: the result of try_lock_exclusive is not inspected.
TryLock_ignored(p) ==
    /\ Advance(p, "try_lock", "create_event_loop")
    /\ IF holders = {}
       THEN /\ holders' = {p}
            /\ f' = [f EXCEPT ![p] = "locked"]
       ELSE UNCHANGED <<holders, f>>
    /\ UNCHANGED <<termVars, engine, mainVars, compVars>>

\* Mutant: the lock is granted although another process holds it.
TryLock_shared(p) ==
    /\ Advance(p, "try_lock", "create_event_loop")
    /\ holders' = holders \cup {p}
    /\ f' = [f EXCEPT ![p] = "locked"]
    /\ UNCHANGED <<termVars, engine, mainVars, compVars>>

\* Mutant: the handle is a temporary, dropped (and unlocked) at once.
TryLock_dropped(p) ==
    IF holders = {}
    THEN /\ Advance(p, "try_lock", "create_event_loop")
         /\ f' = [f EXCEPT ![p] = "closed"]
         /\ UNCHANGED <<termVars, holders, engine, mainVars, compVars>>
    ELSE Panic(p, "try_lock")

\* if f.try_lock_exclusive().is_err() { panic!(..) }
\* The OS grants the exclusive lock only while no process holds it; the call
\* may also fail on an I/O error.
TryLock(p) ==
    \/ /\ holders = {}
       /\ Advance(p, "try_lock", "create_event_loop")
       /\ holders' = {p}
       /\ f' = [f EXCEPT ![p] = "locked"]
       /\ UNCHANGED <<termVars, engine, mainVars, compVars>>
    \/ Panic(p, "try_lock")

\* store::create_event_loop, the raft router and the snapshot status channel.
CreateEventLoop(p) ==
    \E ok \in BOOLEAN :
        IF ok
        THEN /\ Advance(p, "create_event_loop", "open_engine")
             /\ UNCHANGED <<termVars, osVars, mainVars, compVars>>
        ELSE exit_with_err(p, "create_event_loop")

\* The DB and CF options and rocksdb_util::new_engine_opt(db_path, ..).
OpenEngine(p) ==
    \E ok \in BOOLEAN :
        IF ok
        THEN /\ Advance(p, "open_engine", "create_storage")
             /\ engine' = [engine EXCEPT ![p] = "open"]
             /\ UNCHANGED <<termVars, holders, f, mainVars, compVars>>
        ELSE exit_with_err(p, "open_engine")

\* create_raft_storage(raft_router.clone(), engine.clone(), &cfg)
CreateStorage(p) ==
    \E ok \in BOOLEAN :
        IF ok
        THEN /\ Advance(p, "create_storage", "new_resolver")
             /\ storage' = [storage EXCEPT ![p] = "created"]
             /\ UNCHANGED <<termVars, osVars, mainVars, worker, server, trans,
                            node, nodeTrans>>
        ELSE exit_with_err(p, "create_storage")

\* resolve::new_resolver(pd_client.clone()) starts the resolver worker.
NewResolver(p) ==
    \E ok \in BOOLEAN :
        IF ok
        THEN /\ Advance(p, "new_resolver", "snap_mgr")
             /\ worker' = [worker EXCEPT ![p] = "started"]
             /\ UNCHANGED <<termVars, osVars, mainVars, storage, server, trans,
                            node, nodeTrans>>
        ELSE exit_with_err(p, "new_resolver")

\* Mutant: the node is created right after the snapshot manager.
NewSnapManager_reordered(p) ==
    /\ Advance(p, "snap_mgr", "node_start")
    /\ UNCHANGED <<termVars, osVars, mainVars, compVars>>

\* SnapManager::new(snap_path, ..)
NewSnapManager(p) ==
    /\ Advance(p, "snap_mgr", "server_new")
    /\ UNCHANGED <<termVars, osVars, mainVars, compVars>>

\* Server::new(..) and let trans = server.transport();
ServerNew(p) ==
    \E ok \in BOOLEAN :
        IF ok
        THEN /\ Advance(p, "server_new", "node_start")
             /\ server' = [server EXCEPT ![p] = "created"]
             /\ trans' = [trans EXCEPT ![p] = "wired"]
             /\ UNCHANGED <<termVars, osVars, mainVars, storage, worker, node,
                            nodeTrans>>
        ELSE exit_with_err(p, "server_new")

\* Node::new(..) and node.start(event_loop, engine.clone(), trans, ..)
NodeStart(p) ==
    \E ok \in BOOLEAN :
        IF ok
        THEN /\ Advance(p, "node_start", "initial_metric")
             /\ node' = [node EXCEPT ![p] = "started"]
             /\ nodeTrans' = [nodeTrans EXCEPT ![p] = trans[p]]
             /\ UNCHANGED <<termVars, osVars, mainVars, storage, worker,
                            server, trans>>
        ELSE exit_with_err(p, "node_start")

\* initial_metric(config, Some(node.id()))
InitialMetric(p) ==
    \E ok \in BOOLEAN :
        IF ok
        THEN /\ Advance(p, "initial_metric", "storage_start")
             /\ UNCHANGED <<termVars, osVars, mainVars, compVars>>
        ELSE exit_with_err(p, "initial_metric")

\* if let Err(e) = storage.start(&cfg.storage) { panic!(..) }
StorageStart(p) ==
    \E ok \in BOOLEAN :
        IF ok
        THEN /\ Advance(p, "storage_start", "server_start")
             /\ storage' = [storage EXCEPT ![p] = "started"]
             /\ UNCHANGED <<termVars, osVars, mainVars, worker, server, trans,
                            node, nodeTrans>>
        ELSE Panic(p, "storage_start")

\* server.start(&cfg)
ServerStart(p) ==
    \E ok \in BOOLEAN :
        IF ok
        THEN /\ Advance(p, "server_start", "handle_signal")
             /\ server' = [server EXCEPT ![p] = "started"]
             /\ UNCHANGED <<termVars, osVars, mainVars, storage, worker, trans,
                            node, nodeTrans>>
        ELSE exit_with_err(p, "server_start")

\* signal_handler::handle_signal(engine, backup_path) returns once a
\* shutdown signal has been received.
HandleSignal(p) ==
    /\ Advance(p, "handle_signal", "server_stop")
    /\ UNCHANGED <<termVars, osVars, mainVars, compVars>>

\* server.stop().unwrap_or_else(|err| exit_with_err(..))
ServerStop(p) ==
    \E ok \in BOOLEAN :
        IF ok
        THEN /\ Advance(p, "server_stop", "node_stop")
             /\ server' = [server EXCEPT ![p] = "stopped"]
             /\ UNCHANGED <<termVars, osVars, mainVars, storage, worker, trans,
                            node, nodeTrans>>
        ELSE exit_with_err(p, "server_stop")

\* node.stop().unwrap_or_else(|err| exit_with_err(..))
NodeStop(p) ==
    \E ok \in BOOLEAN :
        IF ok
        THEN /\ Advance(p, "node_stop", "resolver_stop")
             /\ node' = [node EXCEPT ![p] = "stopped"]
             /\ UNCHANGED <<termVars, osVars, mainVars, storage, worker,
                            server, trans, nodeTrans>>
        ELSE exit_with_err(p, "node_stop")

\* worker.stop().map(|h| h.join()): a join error is logged and ignored.
ResolverStop(p) ==
    \E joined \in BOOLEAN :
        /\ Advance(p, "resolver_stop", "drop_locals")
        /\ worker' = [worker EXCEPT ![p] = "stopped"]
        /\ UNCHANGED <<termVars, osVars, mainVars, storage, server, trans,
                       node, nodeTrans>>

\* Mutant: the lock file handle is declared after the engine, so it is
\* dropped before it.
DropLocals_lock_first(p) ==
    /\ Advance(p, "drop_locals", "drop_lock_file")
    /\ f' = [f EXCEPT ![p] = "closed"]
    /\ holders' = holders \ {p}
    /\ UNCHANGED <<termVars, engine, mainVars, compVars>>

\* End of run_raft_server: the locals declared after f (node, server,
\* worker, storage, the engine handles) are dropped in reverse order of
\* declaration; the last engine handle goes with them.
DropLocals(p) ==
    /\ Advance(p, "drop_locals", "drop_lock_file")
    /\ engine' = [engine EXCEPT ![p] = "dropped"]
    /\ UNCHANGED <<termVars, holders, f, mainVars, compVars>>

\* f, declared first, is dropped last: the file closes and the lock is
\* released.
DropLockFile(p) ==
    /\ Advance(p, "drop_lock_file", "drop_monitor")
    /\ f' = [f EXCEPT ![p] = "closed"]
    /\ holders' = holders \ {p}
    /\ UNCHANGED <<termVars, engine, mainVars, compVars>>

\* End of main: _m is dropped (the monitor worker is joined) and the
\* process exits with status 0.
DropTimeMonitor(p) ==
    /\ pc[p] = "drop_monitor"
    /\ pc' = [pc EXCEPT ![p] = "exited"]
    /\ Record(p, "drop_monitor")
    /\ exitCode' = [exitCode EXCEPT ![p] = 0]
    /\ monitor' = [monitor EXCEPT ![p] = "joined"]
    /\ UNCHANGED <<fatal, osVars, hook, cluster_id, compVars>>

----------------------------------------------------------------------------
Next ==
    \E p \in Procs :
        \/ LoadConfig(p)
        \/ InitLog(p)
        \/ SetExitHook(p)
        \/ CheckSystemConfig(p)
        \/ ResolveAddr(p)
        \/ PdEndpoints(p)
        \/ PdConnect(p)
        \/ GetClusterId(p)
        \/ HostFacts(p)
        \/ BuildCfg(p)
        \/ CheckClusterId(p)
        \/ StartTimeMonitor(p)
        \/ CreateLockFile(p)
        \/ TryLock(p)
        \/ CreateEventLoop(p)
        \/ OpenEngine(p)
        \/ CreateStorage(p)
        \/ NewResolver(p)
        \/ NewSnapManager(p)
        \/ ServerNew(p)
        \/ NodeStart(p)
        \/ InitialMetric(p)
        \/ StorageStart(p)
        \/ ServerStart(p)
        \/ HandleSignal(p)
        \/ ServerStop(p)
        \/ NodeStop(p)
        \/ ResolverStop(p)
        \/ DropLocals(p)
        \/ DropLockFile(p)
        \/ DropTimeMonitor(p)

Spec ==
    Init /\ [][Next]_vars

TypeOK ==
    /\ exitCode \in [Procs -> {-1, 0, EXIT_FAILURE, 101}]
    /\ holders \subseteq Procs
    /\ \A p \in Procs : engine[p] \in {"none", "open", "closed", "dropped"}

----------------------------------------------------------------------------
\* Properties of the bootstrap

\* try_lock_exclusive returned Ok for p at some point.
Acquired(p) ==
    Ran(p, "try_lock") /\ fatal[p] # "try_lock"

\* Each statement of seq that ran, ran after its predecessor in seq had.
InOrder(p, seq) ==
    \A i \in 1..(Len(seq) - 1) :
        Before(p, seq[i], seq[i + 1])

\* C1: the exclusive lock on <data_dir>/LOCK is acquired before the engine
\* under <data_dir>/db is opened; no process reaches the engine-open step
\* without holding the lock.
C1_LockBeforeEngine ==
    \A p \in Procs :
        /\ pc[p] = "open_engine" => (p \in holders /\ f[p] = "locked")
        /\ Ran(p, "open_engine") =>
              (Acquired(p) /\ Pos(p, "try_lock") < Pos(p, "open_engine"))

C1_Witness ==
    \E p \in Procs :
        engine[p] = "open" /\ Ran(p, "open_engine") /\ p \in holders

\* C2 as stated: of the processes bootstrapping against the same data_dir
\* exactly one ever acquires the lock; every other one ends at the lock step.
C2_ExactlyOneAcquires ==
    /\ Cardinality(holders) <= 1
    /\ Cardinality({p \in Procs : Acquired(p)}) <= 1
    /\ \A p \in Procs :
          (Ran(p, "try_lock") /\ (\E q \in Procs \ {p} : Acquired(q)))
              => fatal[p] = "try_lock"

\* C2 amended: at no time do two live processes hold the lock; a process
\* that tries the lock while another live process holds it panics at the
\* lock step (exit status 1) and never opens the engine.  A process that
\* tries after the holder has exited may acquire the lock in its turn.
C2_LockExclusive ==
    /\ [](/\ Cardinality(holders) <= 1
          /\ \A p \in holders : Alive(p) /\ f[p] = "locked"
          /\ \A p \in Procs :
                fatal[p] = "try_lock" =>
                    (/\ ~Ran(p, "open_engine")
                     /\ engine[p] = "none"
                     /\ exitCode[p] = EXIT_FAILURE))
    /\ [][\A p \in Procs :
            (pc[p] = "try_lock" /\ holders \ {p} # {} /\ pc'[p] # "try_lock")
                => (pc'[p] = "exited" /\ fatal'[p] = "try_lock"
                    /\ holders' = holders)]_vars

C2_Witness ==
    \E p, q \in Procs :
        /\ p # q
        /\ p \in holders
        /\ fatal[q] = "try_lock"
        /\ exitCode[q] = EXIT_FAILURE
        /\ engine[q] = "none"

\* C3: a process that has the engine open, or is running server.stop(),
\* node.stop() or the resolver stop, holds the data-directory lock.
C3_LockHeldWhileRunning ==
    \A p \in Procs :
        (\/ engine[p] = "open"
         \/ pc[p] \in {"server_stop", "node_stop", "resolver_stop"})
            => (p \in holders /\ f[p] = "locked")

C3_Witness ==
    \E p \in Procs :
        pc[p] = "resolver_stop" /\ engine[p] = "open" /\ p \in holders

\* PD answered get_cluster_id with the sentinel 0.
PdReturnedZero(p) ==
    /\ Ran(p, "get_cluster_id")
    /\ fatal[p] # "get_cluster_id"
    /\ cluster_id[p] = DEFAULT_CLUSTER_ID

RunRaftServerPcs ==
    {"create_lock_file", "try_lock", "create_event_loop", "open_engine",
     "create_storage", "new_resolver", "snap_mgr", "server_new", "node_start",
     "initial_metric", "storage_start", "server_start", "handle_signal",
     "server_stop", "node_stop", "resolver_stop", "drop_locals",
     "drop_lock_file"}

\* C4: when PD returns cluster_id = 0 the process never enters
\* run_raft_server: it takes no lock and opens no engine, it can only end in
\* failure, and the cluster-id check, once reached, panics.
C4_ClusterZeroGuard ==
    \A p \in Procs :
        PdReturnedZero(p) =>
            /\ pc[p] \notin RunRaftServerPcs
            /\ ~Ran(p, "create_lock_file")
            /\ f[p] = "none" /\ p \notin holders
            /\ engine[p] = "none"
            /\ monitor[p] = "none"
            /\ pc[p] = "exited" => (fatal[p] # "none" /\ exitCode[p] = EXIT_FAILURE)
            /\ Ran(p, "check_cluster_id") => fatal[p] = "check_cluster_id"

C4_Witness ==
    \E p \in Procs :
        PdReturnedZero(p) /\ fatal[p] = "check_cluster_id"

\* The startup order of the overview: configuration, lock, engine, storage,
\* PD client, snapshot manager, network server, node, jump monitor, signal
\* wait.
StartupOrderStated ==
    <<"build_cfg", "try_lock", "open_engine", "create_storage", "pd_connect",
      "snap_mgr", "server_new", "node_start", "time_monitor">>

\* The startup order of main and run_raft_server.
StartupOrder ==
    <<"resolve_addr", "pd_connect", "get_cluster_id", "build_cfg",
      "time_monitor", "try_lock", "open_engine", "create_storage",
      "new_resolver", "snap_mgr", "server_new", "node_start", "storage_start",
      "server_start">>

\* p's startup succeeded: it waits for a signal, or has received one.
StartedUp(p) ==
    pc[p] = "handle_signal" \/ Ran(p, "handle_signal")

\* C5 as stated: a successful startup ran its steps in the stated order.
C5_StatedStartupOrder ==
    \A p \in Procs :
        StartedUp(p) =>
            /\ \A i \in 1..Len(StartupOrderStated) : Ran(p, StartupOrderStated[i])
            /\ InOrder(p, StartupOrderStated)

\* C5 amended: a successful startup ran, in this order: address resolution,
\* PD client connection and cluster id, configuration build, jump monitor,
\* directory lock, engine open, storage creation, resolver, snapshot manager,
\* network server construction, node start, storage start, network server
\* start, and then the signal wait.
C5_StartupOrder ==
    \A p \in Procs :
        /\ InOrder(p, StartupOrder)
        /\ StartedUp(p) =>
              /\ \A i \in 1..Len(StartupOrder) : Ran(p, StartupOrder[i])
              /\ (pc[p] = "handle_signal" =>
                    /\ monitor[p] = "running"
                    /\ p \in holders
                    /\ engine[p] = "open"
                    /\ storage[p] = "started"
                    /\ worker[p] = "started"
                    /\ node[p] = "started"
                    /\ server[p] = "started")

C5_Witness ==
    \E p \in Procs :
        pc[p] = "handle_signal" /\ server[p] = "started"

\* C6 as stated: node.start() is called only after the network server has
\* been started.
C6_NodeAfterServerStart ==
    \A p \in Procs :
        Ran(p, "node_start") =>
            (Ran(p, "server_start") /\ Pos(p, "server_start") < Pos(p, "node_start"))

\* C6 amended: node.start() is called only after the network server has
\* been constructed and its transport obtained, so the transport handed to
\* the node is wired; the network server itself is started after the node.
C6_NodeAfterServerNew ==
    \A p \in Procs :
        /\ (pc[p] = "node_start" \/ Ran(p, "node_start")) =>
              (/\ Ran(p, "server_new")
               /\ server[p] # "none"
               /\ trans[p] = "wired")
        /\ node[p] # "none" => nodeTrans[p] = "wired"
        /\ Before(p, "server_new", "node_start")
        /\ Before(p, "node_start", "server_start")

C6_Witness ==
    \E p \in Procs :
        /\ node[p] = "started"
        /\ nodeTrans[p] = "wired"
        /\ server[p] = "created"

\* The teardown statements, in program order.
TeardownOrder ==
    <<"handle_signal", "server_stop", "node_stop", "resolver_stop",
      "drop_locals", "drop_lock_file">>

\* C7: after the shutdown signal teardown runs server.stop(), node.stop(),
\* the resolver stop and join, then the engine handle is dropped, and the
\* file lock is released last.
C7_TeardownOrder ==
    \A p \in Procs :
        /\ InOrder(p, TeardownOrder)
        /\ pc[p] = "drop_locals" =>
              (/\ server[p] = "stopped" /\ node[p] = "stopped"
               /\ worker[p] = "stopped"
               /\ engine[p] = "open" /\ p \in holders)
        /\ pc[p] = "drop_lock_file" => (engine[p] = "dropped" /\ p \in holders)
        /\ Ran(p, "drop_lock_file") =>
              (/\ engine[p] = "dropped" /\ worker[p] = "stopped"
               /\ p \notin holders /\ f[p] = "closed")
        /\ (Ran(p, "handle_signal") /\ engine[p] = "open") => p \in holders

C7_Witness ==
    \E p \in Procs :
        /\ Ran(p, "drop_lock_file")
        /\ engine[p] = "dropped"
        /\ p \notin holders

\* C8: a failing stop step never prevents a later stop step from running:
\* a process that ran server.stop() has, when it ends, also run node.stop()
\* and the resolver stop.
C8_TeardownContinues ==
    \A p \in Procs :
        (pc[p] = "exited" /\ Ran(p, "server_stop")) =>
            (Ran(p, "node_stop") /\ Ran(p, "resolver_stop"))

\* C9: after a clean shutdown every component started during startup (node,
\* storage, network server, resolver worker) has been stopped, storage
\* included.
C9_ReverseShutdown ==
    \A p \in Procs :
        (pc[p] = "exited" /\ exitCode[p] = 0) =>
            /\ server[p] = "stopped"
            /\ storage[p] = "stopped"
            /\ node[p] = "stopped"
            /\ worker[p] = "stopped"

\* C10: every fatal startup error ends the process with exit status 1, and
\* the exit hook is installed before any statement that can panic.
C10_FatalExitsOne ==
    \A p \in Procs :
        fatal[p] # "none" =>
            /\ exitCode[p] = EXIT_FAILURE
            /\ fatal[p] \in {"load_config", "pd_endpoints", "build_cfg",
                             "check_cluster_id", "try_lock", "storage_start"}
                  => hook[p]

----------------------------------------------------------------------------
\* util::time::Monitor (src/src/util/time.rs)

MonFrame ==
    UNCHANGED <<bootVars, timeVars, convVars, sizeVars, optVars,
                lookVars, metVars>>

\* The worker thread has ended, which drops the receiver rx.
WorkerEnded ==
    wpc \in {"exited", "panicked"}

\* The values the injected clock now() may return.  The test clock returns
\* SystemTime::now() on its first call and SystemTime::now() - 2 s afterwards.
ClockSamples ==
    IF clockMode = "test"
    THEN {IF triggered THEN wall - TEST_JUMP_BACK_MS ELSE wall}
    ELSE 0..MaxTime

\* after.duration_since(before) is Err exactly when after is earlier.
DurationSinceIsErr(later, earlier) ==
    later < earlier

\* Mutant: the worker tests the channel but loops on whatever it receives.
TryRecv_deaf ==
    /\ wpc = "try_recv"
    /\ cycles < MaxCycles
    /\ rx' = <<>>
    /\ wpc' = "before"
    /\ UNCHANGED <<clockMode, triggered, wall, before, after, handle, dpc,
                   dropLog, cycles, calls, jumps, lastCycle, atSend>>
    /\ MonFrame

\* while let Err(_) = rx.try_recv() { .. }: a received token ends the loop
\* and the thread; an empty channel starts a detection cycle.
TryRecv ==
    /\ wpc = "try_recv"
    /\ IF rx # <<>>
       THEN /\ rx' = Tail(rx)
            /\ wpc' = "exited"
       ELSE /\ cycles < MaxCycles
            /\ rx' = rx
            /\ wpc' = "before"
    /\ UNCHANGED <<clockMode, triggered, wall, before, after, handle, dpc,
                   dropLog, cycles, calls, jumps, lastCycle, atSend>>
    /\ MonFrame

\* let before = now();  the callback returns a sample or panics.
SampleBefore ==
    /\ wpc = "before"
    /\ \/ \E t \in ClockSamples :
            /\ before' = t
            /\ triggered' = (triggered \/ clockMode = "test")
            /\ wpc' = "sleep"
       \/ /\ wpc' = "panicked"
          /\ UNCHANGED <<before, triggered>>
    /\ UNCHANGED <<clockMode, wall, after, rx, handle, dpc, dropLog, cycles,
                   calls, jumps, lastCycle, atSend>>
    /\ MonFrame

\* thread::sleep(Duration::from_millis(DEFAULT_WAIT_MS))
Sleep ==
    /\ wpc = "sleep"
    /\ \E k \in 1..MaxSleepFactor :
          wall' = wall + k * DEFAULT_WAIT_MS
    /\ wpc' = "after"
    /\ UNCHANGED <<clockMode, triggered, before, after, rx, handle, dpc,
                   dropLog, cycles, calls, jumps, lastCycle, atSend>>
    /\ MonFrame

\* let after = now();
SampleAfter ==
    /\ wpc = "after"
    /\ \/ \E t \in ClockSamples :
            /\ after' = t
            /\ triggered' = (triggered \/ clockMode = "test")
            /\ wpc' = "compare"
       \/ /\ wpc' = "panicked"
          /\ UNCHANGED <<after, triggered>>
    /\ UNCHANGED <<clockMode, wall, before, rx, handle, dpc, dropLog, cycles,
                   calls, jumps, lastCycle, atSend>>
    /\ MonFrame

\* Mutant: the channel is tested only after the last cycle.
EndCycle_unchecked(n) ==
    /\ cycles' = cycles + 1
    /\ jumps' = jumps + (IF after < before THEN 1 ELSE 0)
    /\ calls' = calls + n
    /\ lastCycle' = [n |-> cycles + 1, before |-> before, after |-> after,
                     called |-> n > 0]
    /\ wpc' = IF cycles + 1 < MaxCycles THEN "before" ELSE "try_recv"
    /\ UNCHANGED <<clockMode, triggered, wall, before, after, rx, handle,
                   dpc, dropLog, atSend>>
    /\ MonFrame

\* The end of a cycle in which on_jumped was invoked `n` times (and, when
\* invoked, returned or panicked).
EndCycle(n) ==
    /\ cycles' = cycles + 1
    /\ jumps' = jumps + (IF after < before THEN 1 ELSE 0)
    /\ calls' = calls + n
    /\ lastCycle' = [n |-> cycles + 1, before |-> before, after |-> after,
                     called |-> n > 0]
    /\ IF n > 0
       THEN wpc' \in {"try_recv", "panicked"}
       ELSE wpc' = "try_recv"
    /\ UNCHANGED <<clockMode, triggered, wall, before, after, rx, handle,
                   dpc, dropLog, atSend>>
    /\ MonFrame

\* Mutant: equal samples count as a jump.
Compare_or_equal ==
    /\ wpc = "compare"
    /\ EndCycle(IF after <= before THEN 1 ELSE 0)

\* Mutant: the operands of duration_since are swapped.
Compare_swapped ==
    /\ wpc = "compare"
    /\ EndCycle(IF DurationSinceIsErr(before, after) THEN 1 ELSE 0)

\* if let Err(e) = after.duration_since(before) { error!(..); on_jumped() }
Compare ==
    /\ wpc = "compare"
    /\ EndCycle(IF DurationSinceIsErr(after, before) THEN 1 ELSE 0)

\* The owner lets go of the Monitor: Drop::drop begins.
DropBegin ==
    /\ dpc = "live"
    /\ dpc' = "take"
    /\ UNCHANGED <<clockMode, triggered, wall, wpc, before, after, rx, handle,
                   dropLog, cycles, calls, jumps, lastCycle, atSend>>
    /\ MonFrame

\* let h = self.handle.take(); if h.is_none() { return; }
DropTake ==
    /\ dpc = "take"
    /\ handle' = "none"
    /\ dpc' = IF handle = "none" THEN "returned" ELSE "send"
    /\ UNCHANGED <<clockMode, triggered, wall, wpc, before, after, rx,
                   dropLog, cycles, calls, jumps, lastCycle, atSend>>
    /\ MonFrame

\* if let Err(e) = self.tx.send(true) { error!(..); return; }
\* send fails exactly when the receiver has been dropped.
DropSend ==
    /\ dpc = "send"
    /\ IF WorkerEnded
       THEN /\ dropLog' = "send_failed"
            /\ dpc' = "returned"
            /\ rx' = rx
            /\ atSend' = atSend
       ELSE /\ rx' = Append(rx, TRUE)
            /\ dpc' = "join"
            /\ dropLog' = dropLog
            /\ atSend' = [sent |-> TRUE, wpc |-> wpc, cycles |-> cycles,
                          calls |-> calls]
    /\ UNCHANGED <<clockMode, triggered, wall, wpc, before, after, handle,
                   cycles, calls, jumps, lastCycle>>
    /\ MonFrame

\* Mutant: join returns Ok without waiting for the thread.
DropJoin_detached ==
    /\ dpc = "join"
    /\ dropLog' = IF wpc = "panicked" THEN "join_failed" ELSE dropLog
    /\ dpc' = "returned"
    /\ UNCHANGED <<clockMode, triggered, wall, wpc, before, after, rx, handle,
                   cycles, calls, jumps, lastCycle, atSend>>
    /\ MonFrame

\* if let Err(e) = h.unwrap().join() { error!(..); return; }
\* join blocks until the thread has ended and is Err when it panicked.
DropJoin ==
    /\ dpc = "join"
    /\ WorkerEnded
    /\ dropLog' = IF wpc = "panicked" THEN "join_failed" ELSE dropLog
    /\ dpc' = "returned"
    /\ UNCHANGED <<clockMode, triggered, wall, wpc, before, after, rx, handle,
                   cycles, calls, jumps, lastCycle, atSend>>
    /\ MonFrame

WorkerNext ==
    \/ TryRecv
    \/ SampleBefore
    \/ Sleep
    \/ SampleAfter
    \/ Compare

DropNext ==
    \/ DropTake
    \/ DropSend
    \/ DropJoin

MonNext ==
    \/ TryRecv
    \/ SampleBefore
    \/ Sleep
    \/ SampleAfter
    \/ Compare
    \/ DropBegin
    \/ DropTake
    \/ DropSend
    \/ DropJoin

MonInit ==
    /\ BootInit
    /\ MetricIdle
    /\ LookupIdle
    /\ OptionsIdle
    /\ \E mode \in {"any", "test"} : MonitorNew(mode)
    /\ InstantIdle
    /\ ConversionIdle
    /\ SizingIdle

SpecMonitor ==
    MonInit /\ [][MonNext]_vars

\* Threads are scheduled and sleeps return: the worker and a drop that is
\* under way keep taking steps while they can.
SpecMonitorLive ==
    MonInit /\ [][MonNext]_vars /\ WF_vars(WorkerNext) /\ WF_vars(DropNext)

\* C11: in each detection cycle on_jumped is invoked if and only if the
\* second sample is strictly earlier than the first.
C11_JumpIffEarlier ==
    lastCycle.n > 0 =>
        (lastCycle.called <=> lastCycle.after < lastCycle.before)

C11_Witness ==
    /\ clockMode = "any"
    /\ calls > 0
    /\ lastCycle.n > 1
    /\ lastCycle.after = lastCycle.before
    /\ ~lastCycle.called

\* C12: with the test clock (first sample the current time, later samples
\* 2 s behind) on_jumped is invoked in the first detection cycle, and once
\* per cycle that detects a jump.
C12_TestClockJump ==
    clockMode = "test" =>
        /\ lastCycle.n = 1 => lastCycle.called
        /\ cycles >= 1 => calls >= 1
        /\ calls = jumps
        /\ calls <= cycles

C12_Witness ==
    /\ clockMode = "test"
    /\ cycles = 2
    /\ calls = 1
    /\ ~lastCycle.called

\* C13: a drop, once begun, returns: the token is sent, the worker observes
\* it and exits, and the join completes; a failed send or join is logged and
\* the drop returns all the same.
C13_DropTerminates ==
    /\ [](/\ dpc = "join" => (handle = "none" /\ dropLog = "none")
          /\ dpc = "returned" =>
                /\ handle = "none"
                /\ WorkerEnded
                /\ dropLog = "none" <=> wpc = "exited"
                /\ dropLog = "send_failed" => rx = <<>>)
    /\ (dpc = "take") ~> (dpc = "returned")

C13_Witness ==
    /\ dpc = "returned"
    /\ dropLog = "none"
    /\ wpc = "exited"
    /\ cycles > 0

\* drop has returned and neither the send nor the join failed.
DroppedCleanly ==
    dpc = "returned" /\ dropLog = "none"

\* C28: after Monitor's drop has returned following a successful join the
\* worker has exited: from then on the clock is never sampled and on_jumped
\* never invoked.
C28_NoWorkAfterDrop ==
    /\ [](DroppedCleanly => wpc = "exited")
    /\ [][DroppedCleanly =>
              UNCHANGED <<wpc, before, after, triggered, cycles, calls,
                          jumps>>]_vars

C28_Witness ==
    /\ DroppedCleanly
    /\ wpc = "exited"
    /\ atSend.sent
    /\ calls > 0

\* The worker is inside a detection cycle: try_recv has returned Err and
\* the cycle's comparison is not done.
InCycle(w) ==
    w \in {"before", "sleep", "after", "compare"}

\* The detection cycles begun by a worker at `w` that has completed `c`.
CyclesStarted(c, w) ==
    c + (IF InCycle(w) THEN 1 ELSE 0)

\* C29: once the quit token is sent the worker finishes at most the cycle
\* in progress: no new cycle starts and on_jumped is invoked at most once
\* more; when the token is sent before the worker's first check, the worker
\* exits without sampling the clock at all.
C29_AtMostTheCycleInProgress ==
    atSend.sent =>
        /\ CyclesStarted(cycles, wpc) <= CyclesStarted(atSend.cycles, atSend.wpc)
        /\ InCycle(wpc) => (InCycle(atSend.wpc) /\ cycles = atSend.cycles)
        /\ calls <= atSend.calls + 1
        /\ ~InCycle(atSend.wpc) => (cycles = atSend.cycles /\ calls = atSend.calls)
        /\ (atSend.cycles = 0 /\ atSend.wpc = "try_recv") =>
              /\ wpc \in {"try_recv", "exited"}
              /\ cycles = 0
              /\ ~triggered

C29_Witness ==
    /\ atSend.sent
    /\ atSend.wpc = "sleep"
    /\ wpc = "exited"
    /\ cycles = atSend.cycles + 1
    /\ calls = atSend.calls + 1

----------------------------------------------------------------------------
\* util::time::Instant arithmetic (src/src/util/time.rs)

TimeFrame ==
    UNCHANGED <<bootVars, monVars, convVars, sizeVars, optVars,
                lookVars, metVars>>

\* Nanosecond parts that exercise carry and borrow.
NsecSamples ==
    {0, 1, 400000000, 600000000, NANOSECONDS_PER_SECOND - 1}

Tags ==
    {"Monotonic", "MonotonicCoarse"}

Instants ==
    [tag : Tags, sec : 0..MaxSec, nsec : NsecSamples]

Durations ==
    [secs : 0..MaxSec, nanos : NsecSamples]

\* Instant::get_timespec
get_timespec(i) ==
    [sec |-> i.sec, nsec |-> i.nsec]

\* Timespec's derived ordering: by sec, then by nsec.
TimespecGE(a, b) ==
    \/ a.sec > b.sec
    \/ a.sec = b.sec /\ a.nsec >= b.nsec

\* Mutant: a nanosecond sum of a full second or more is kept as it is.
TimespecAdd_no_carry(t, d) ==
    [sec |-> t.sec + d.secs, nsec |-> t.nsec + d.nanos]

\* t + TimeDuration::from_std(d).unwrap() on a Timespec: the seconds and
\* the nanoseconds are added and the nanoseconds brought back into
\* 0..NANOSECONDS_PER_SECOND-1.
TimespecAdd(t, d) ==
    LET sec == t.sec + d.secs
        nsec == t.nsec + d.nanos
    IN  IF nsec >= NANOSECONDS_PER_SECOND
        THEN [sec |-> sec + 1, nsec |-> nsec - NANOSECONDS_PER_SECOND]
        ELSE IF nsec < 0
        THEN [sec |-> sec - 1, nsec |-> nsec + NANOSECONDS_PER_SECOND]
        ELSE [sec |-> sec, nsec |-> nsec]

\* t - TimeDuration::from_std(d).unwrap() on a Timespec.
TimespecSub(t, d) ==
    LET sec == t.sec - d.secs
        nsec == t.nsec - d.nanos
    IN  IF nsec >= NANOSECONDS_PER_SECOND
        THEN [sec |-> sec + 1, nsec |-> nsec - NANOSECONDS_PER_SECOND]
        ELSE IF nsec < 0
        THEN [sec |-> sec - 1, nsec |-> nsec + NANOSECONDS_PER_SECOND]
        ELSE [sec |-> sec, nsec |-> nsec]

\* impl Add<Duration> for Instant: the variant of self wraps the sum.
InstantAdd(i, d) ==
    LET t == TimespecAdd(get_timespec(i), d)
    IN  [tag |-> i.tag, sec |-> t.sec, nsec |-> t.nsec]

\* impl Sub<Duration> for Instant
InstantSub(i, d) ==
    LET t == TimespecSub(get_timespec(i), d)
    IN  [tag |-> i.tag, sec |-> t.sec, nsec |-> t.nsec]

\* (n as u32) for an i32 n, as <<whole seconds, remaining nanoseconds>> of
\* the u32 read as nanoseconds: a negative n becomes 2^32 + n.
AsU32(n) ==
    IF n >= 0
    THEN <<n \div NANOSECONDS_PER_SECOND, n % NANOSECONDS_PER_SECOND>>
    ELSE IF U32_WRAP_NANOS + n >= 0
    THEN <<U32_WRAP_SECS, U32_WRAP_NANOS + n>>
    ELSE <<U32_WRAP_SECS - 1, U32_WRAP_NANOS + n + NANOSECONDS_PER_SECOND>>

\* Duration::new(secs, nanos): whole seconds in nanos carry into secs.
DurationNew(secs, nanos) ==
    [secs |-> secs + nanos[1], nanos |-> nanos[2]]

AsResult(kind, tag, sec, nsec) ==
    [kind |-> kind, tag |-> tag, sec |-> sec, nsec |-> nsec]

\* Mutant: equal timespecs are taken for a backward jump.
elapsed_duration_strict(later, earlier) ==
    IF TimespecGE(later, earlier) /\ later # earlier
    THEN LET d == DurationNew(later.sec - earlier.sec,
                              AsU32(later.nsec - earlier.nsec))
         IN  AsResult("duration", "-", d.secs, d.nanos)
    ELSE AsResult("panic", "-", 0, 0)

\* elapsed_duration(later, earlier)
elapsed_duration(later, earlier) ==
    IF TimespecGE(later, earlier)
    THEN LET d == DurationNew(later.sec - earlier.sec,
                              AsU32(later.nsec - earlier.nsec))
         IN  AsResult("duration", "-", d.secs, d.nanos)
    ELSE AsResult("panic", "-", 0, 0)

\* Instant::duration_since, which is also impl Sub<Instant> for Instant
duration_since(later, earlier) ==
    elapsed_duration(get_timespec(later), get_timespec(earlier))

InstantResult(i) ==
    AsResult("instant", i.tag, i.sec, i.nsec)

Evaluate(op, value) ==
    /\ iop = "none"
    /\ iop' = op
    /\ ires' = value
    /\ UNCHANGED <<ia, ib, idur>>
    /\ TimeFrame

\* ia + idur
AddDuration ==
    Evaluate("add", InstantResult(InstantAdd(ia, idur)))

\* ia - idur
SubDuration ==
    Evaluate("sub", InstantResult(InstantSub(ia, idur)))

\* (ia + idur) - ia
AddThenSince ==
    Evaluate("add_since", duration_since(InstantAdd(ia, idur), ia))

\* (ia - idur) + idur
SubThenAdd ==
    Evaluate("sub_add", InstantResult(InstantAdd(InstantSub(ia, idur), idur)))

\* ia - ib
SubInstant ==
    Evaluate("since", duration_since(ia, ib))

InstantNext ==
    \/ AddDuration
    \/ SubDuration
    \/ AddThenSince
    \/ SubThenAdd
    \/ SubInstant

InstantInit ==
    /\ BootInit
    /\ MetricIdle
    /\ LookupIdle
    /\ OptionsIdle
    /\ MonitorIdle
    /\ \E a \in Instants, b \in Instants, d \in Durations :
          InstantOperands(a, b, d)
    /\ ConversionIdle
    /\ SizingIdle

SpecInstant ==
    InstantInit /\ [][InstantNext]_vars

\* C14: for every Instant t and Duration d, (t + d) - t is d, also when the
\* addition carries nanoseconds into the seconds.
C14_AddThenSinceIsD ==
    iop = "add_since" =>
        ires = AsResult("duration", "-", idur.secs, idur.nanos)

C16_PanicIffEarlier ==
    iop = "since" =>
        (ires.kind = "panic" <=>
            (ia.sec < ib.sec \/ (ia.sec = ib.sec /\ ia.nsec < ib.nsec)))

C16_Witness ==
    /\ iop = "since"
    /\ ires.kind = "panic"
    /\ ia.tag # ib.tag
    /\ ia.sec = ib.sec

----------------------------------------------------------------------------
\* util::time::duration_to_ms and duration_to_nanos (src/src/util/time.rs)

ConvFrame ==
    UNCHANGED <<bootVars, monVars, timeVars, sizeVars, optVars,
                lookVars, metVars>>

\* u64::MAX = 18_446_744_073_709_551_615
U64_MAX ==
    <<18, 446, 744, 73, 709, 551, 615>>

Front(s) ==
    IF s = <<>> THEN <<>> ELSE SubSeq(s, 1, Len(s) - 1)

RECURSIVE Normalize(_)
\* Strips leading zero digits.
Normalize(s) ==
    IF s = <<>> THEN <<>>
    ELSE IF s[1] = 0 THEN Normalize(Tail(s))
    ELSE s

\* The digits of n, 0 <= n < LimbBase^3.
ToLimbs(n) ==
    Normalize(<<n \div (LimbBase * LimbBase), (n \div LimbBase) % LimbBase,
                n % LimbBase>>)

\* a <= b for two numbers written in digits.
LimbsLE(a, b) ==
    \/ Len(a) < Len(b)
    \/ /\ Len(a) = Len(b)
       /\ \/ a = b
          \/ \E i \in 1..Len(a) :
                /\ a[i] < b[i]
                /\ \A j \in 1..(i - 1) : a[j] = b[j]

RECURSIVE AddWithCarry(_, _, _)
\* a + b + c in digits, c the carry into the last digit.
AddWithCarry(a, b, c) ==
    IF a = <<>> /\ b = <<>>
    THEN (IF c = 0 THEN <<>> ELSE <<c>>)
    ELSE LET x == IF a = <<>> THEN 0 ELSE a[Len(a)]
             y == IF b = <<>> THEN 0 ELSE b[Len(b)]
             sum == x + y + c
         IN  Append(AddWithCarry(Front(a), Front(b), sum \div LimbBase),
                    sum % LimbBase)

\* a * LimbBase^k
RECURSIVE ShiftLimbs(_, _)
ShiftLimbs(a, k) ==
    IF a = <<>> \/ k = 0 THEN a ELSE ShiftLimbs(Append(a, 0), k - 1)

\* The outcome of a u64 expression whose mathematical value is v, given
\* whether an operation on the way overflowed: with overflow checks
\* the expression panics, without them the value wraps modulo 2^64.
U64Outcome(v, overflowed) ==
    IF ~overflowed THEN [kind |-> "value", value |-> v]
    ELSE IF cbuild = "checked" THEN [kind |-> "panic", value |-> <<>>]
    ELSE [kind |-> "wrapped", value |-> <<>>]

\* a * LimbBase^k + n as a u64 expression: the product, then the sum.
MulThenAdd(a, k, n) ==
    LET product == ShiftLimbs(a, k)
        sum == Normalize(AddWithCarry(product, ToLimbs(n), 0))
    IN  U64Outcome(sum, ~LimbsLE(product, U64_MAX) \/ ~LimbsLE(sum, U64_MAX))

\* Mutant: the subsecond part is taken in microseconds.
duration_to_ms_micros(d) ==
    MulThenAdd(d.secs, 1, d.nanos \div 1000)

\* d.as_secs() * 1_000 + (nanos / 1_000_000)
duration_to_ms(d) ==
    MulThenAdd(d.secs, 1, d.nanos \div 1000000)

\* d.as_secs() * 1_000_000_000 + nanos
duration_to_nanos(d) ==
    MulThenAdd(d.secs, 3, d.nanos)

\* Whole seconds at the limits of u64: the largest whose nanoseconds and
\* whose milliseconds fit in a u64, their successors, and u64::MAX.
SecsSamples ==
    {ToLimbs(n) : n \in 0..MaxSmallSecs}
        \cup {<<18, 446, 744, 73>>, <<18, 446, 744, 74>>,
              <<18, 446, 744, 73, 709, 551>>, <<18, 446, 744, 73, 709, 552>>,
              U64_MAX}

\* Subsecond nanoseconds around the millisecond and around the part of
\* u64::MAX below a whole second.
NanosSamples ==
    {0, 1, 999999, 1000000, 1999999, 615999999, 616000000, 709551615,
     709551616, NANOSECONDS_PER_SECOND - 1}

Convert(op, outcome) ==
    /\ cop = "none"
    /\ cop' = op
    /\ cres' = outcome
    /\ UNCHANGED <<cd, cbuild>>
    /\ ConvFrame

DurationToMs ==
    Convert("ms", duration_to_ms(cd))

DurationToNanos ==
    Convert("nanos", duration_to_nanos(cd))

DurationNext ==
    \/ DurationToMs
    \/ DurationToNanos

DurationInit ==
    /\ BootInit
    /\ MetricIdle
    /\ LookupIdle
    /\ OptionsIdle
    /\ MonitorIdle
    /\ InstantIdle
    /\ SizingIdle
    /\ \E secs \in SecsSamples, nanos \in NanosSamples,
          build \in {"checked", "unchecked"} :
          ConversionArgument(secs, nanos, build)

SpecDuration ==
    DurationInit /\ [][DurationNext]_vars

\* d in nanoseconds: the digits of the seconds followed by those of the
\* subsecond nanoseconds.
ExactNanos(d) ==
    Normalize(d.secs \o <<d.nanos \div 1000000, (d.nanos \div 1000) % 1000,
                          d.nanos % 1000>>)

\* floor(d / 1 ms): d in nanoseconds without its last six decimal digits.
ExactMs(d) ==
    Front(Front(ExactNanos(d)))

\* C17 as stated: for every Duration d, duration_to_ms(d) is floor(d / 1 ms)
\* and duration_to_nanos(d) is d in nanoseconds, exactly.
C17_ExactForEveryDuration ==
    /\ cop = "ms" => cres = [kind |-> "value", value |-> ExactMs(cd)]
    /\ cop = "nanos" => cres = [kind |-> "value", value |-> ExactNanos(cd)]

\* C17: for every Duration d whose count of milliseconds (nanoseconds) is
\* at most u64::MAX, duration_to_ms(d) is floor(d / 1 ms) (duration_to_nanos(d)
\* is d in nanoseconds) exactly; for every other d the conversion overflows:
\* it panics or returns a wrapped value.
C17_ExactWhenFits ==
    /\ cop = "ms" =>
          IF LimbsLE(ExactMs(cd), U64_MAX)
          THEN cres = [kind |-> "value", value |-> ExactMs(cd)]
          ELSE cres.kind \in {"panic", "wrapped"}
    /\ cop = "nanos" =>
          IF LimbsLE(ExactNanos(cd), U64_MAX)
          THEN cres = [kind |-> "value", value |-> ExactNanos(cd)]
          ELSE cres.kind \in {"panic", "wrapped"}

C17_Witness ==
    /\ cop = "ms"
    /\ cd.secs = <<18, 446, 744, 73, 709, 551>>
    /\ cd.nanos = 615999999
    /\ cres = [kind |-> "value", value |-> U64_MAX]

----------------------------------------------------------------------------
\* Sizing from host facts (src/src/bin/tikv-server.rs)

SizeFrame ==
    UNCHANGED <<bootVars, monVars, timeVars, convVars, optVars,
                lookVars, metVars>>

\* The ratios add up to at most 1.0.
sanitize_memory_usage ==
    LET r == DEFAULT_BLOCK_CACHE_RATIO
        hundredths(x) == (x.num * 100) \div x.den
    IN  hundredths(r[1]) + hundredths(r[2]) + hundredths(r[3])
            + hundredths(r[4]) <= 100

\* Mutant: nothing is aligned.
align_to_mb_identity(n) ==
    n

\* n & 0xFFFFFFFFFFF00000 on bytes clears what is below one MiB.
align_to_mb(n) ==
    n - (n % MB)

\* (total_mem as f64 * DEFAULT_BLOCK_CACHE_RATIO[i]) as u64: the product,
\* truncated.
RatioOf(mem, i) ==
    (mem * DEFAULT_BLOCK_CACHE_RATIO[i].num) \div DEFAULT_BLOCK_CACHE_RATIO[i].den

\* Mutant: sizes above the maximum pass.
adjust_block_cache_size_no_max(cache_size, min_limit, max_limit) ==
    IF cache_size < min_limit THEN min_limit ELSE cache_size

\* adjust_block_cache_size
adjust_block_cache_size(cache_size, min_limit, max_limit) ==
    IF cache_size < min_limit THEN min_limit
    ELSE IF cache_size > max_limit THEN max_limit
    ELSE cache_size

\* (total_cpu_num as f32 * 0.8) as usize from 8 CPUs on, else 4
adjust_end_points_by_cpu_num(n) ==
    IF n >= 8 THEN (n * 4) \div 5 ELSE 4

\* get_toml_int(config, name, Some(default)): the file's value when the key
\* is present, else the default.
get_toml_int(value, default) ==
    IF value # Unset THEN value ELSE default

\* get_rocksdb_cf_option: block-cache-size is read from
\* rocksdb.<cf>.block-cache-size with the computed size as its default.
get_rocksdb_cf_option(cf, default_block_cache_size) ==
    get_toml_int(config.cache[cf], default_block_cache_size)

\* default_values.compaction_pri as the four get_rocksdb_*_cf_option set
\* it: 3 for the default and write column families, else the 0 of
\* CfOptValues::default().
DefaultCompactionPri(cf) ==
    IF cf \in {"defaultcf", "writecf"} THEN 3 ELSE 0

\* get_rocksdb_cf_option: the priority is read from
\* rocksdb.<cf>.compaction-pri with Some(0) as its default; default_values
\* is not consulted.
get_compaction_pri(cf, default_values_compaction_pri) ==
    get_toml_int(config.pri[cf], 0)

\* The block cache sizes the four get_rocksdb_*_cf_option compute as
\* defaults on a host with mem KiB of memory.
ComputedCache(cf, mem) ==
    CASE cf = "defaultcf" -> align_to_mb(RatioOf(mem, 1))
      [] cf = "writecf" -> align_to_mb(RatioOf(mem, 2))
      [] cf = "raftcf" ->
            adjust_block_cache_size(align_to_mb(RatioOf(mem, 3)),
                                    RAFTCF_MIN_MEM, RAFTCF_MAX_MEM)
      [] cf = "lockcf" ->
            adjust_block_cache_size(align_to_mb(RatioOf(mem, 4)),
                                    LOCKCF_MIN_MEM, LOCKCF_MAX_MEM)

\* if !sanitize_memory_usage() { panic!(..) }
SanitizeMemoryUsage ==
    /\ opc = "sanitize"
    /\ opc' = IF sanitize_memory_usage THEN "build_cfg" ELSE "panicked"
    /\ UNCHANGED <<total_cpu_num, total_mem, config, end_point_concurrency,
                   block_cache, compaction_pri>>
    /\ SizeFrame

\* build_cfg: server.end-point-concurrency from the file, else by CPUs.
BuildCfgEndPoints ==
    /\ opc = "build_cfg"
    /\ end_point_concurrency' =
          IF config.end_point # Unset
          THEN config.end_point
          ELSE adjust_end_points_by_cpu_num(total_cpu_num)
    /\ opc' = CFs[1]
    /\ UNCHANGED <<total_cpu_num, total_mem, config, block_cache,
                   compaction_pri>>
    /\ SizeFrame

\* run_raft_server builds the options of column family CFs[i].
CfOption(i) ==
    /\ opc = CFs[i]
    /\ block_cache' =
          [block_cache EXCEPT
              ![CFs[i]] = get_rocksdb_cf_option(CFs[i],
                              ComputedCache(CFs[i], total_mem))]
    /\ compaction_pri' =
          [compaction_pri EXCEPT
              ![CFs[i]] = get_compaction_pri(CFs[i],
                              DefaultCompactionPri(CFs[i]))]
    /\ opc' = IF i < Len(CFs) THEN CFs[i + 1] ELSE "open_engine"
    /\ UNCHANGED <<total_cpu_num, total_mem, config, end_point_concurrency>>
    /\ SizeFrame

DefaultCfOption ==
    CfOption(1)

LockCfOption ==
    CfOption(2)

WriteCfOption ==
    CfOption(3)

RaftlogCfOption ==
    CfOption(4)

SizingNext ==
    \/ SanitizeMemoryUsage
    \/ BuildCfgEndPoints
    \/ DefaultCfOption
    \/ LockCfOption
    \/ WriteCfOption
    \/ RaftlogCfOption

MemSamples ==
    {k * unit : k \in 1..MaxMemSteps, unit \in {256 * MB, 16 * GB, 1000001}}

\* Config files: each size key absent or present; a cache size below every
\* minimum, or for the clamped column families above every maximum;
\* compaction-pri absent, or set to 1 for one of the default and write
\* column families.
ConfigFiles ==
    [end_point : {Unset, 2},
     cache : {c \in [CfNames -> {Unset, 8 * MB, 4 * GB}] :
                 c["defaultcf"] # 4 * GB /\ c["writecf"] # 4 * GB},
     pri : {[cf \in CfNames |-> IF cf = set THEN 1 ELSE Unset] :
               set \in {"none", "defaultcf", "writecf"}}]

SizingInit ==
    /\ BootInit
    /\ MetricIdle
    /\ LookupIdle
    /\ OptionsIdle
    /\ MonitorIdle
    /\ InstantIdle
    /\ ConversionIdle
    /\ \E cpus \in 1..MaxCpu, mem \in MemSamples, file \in ConfigFiles :
          HostFactsRead(cpus, mem, file)

SpecSizing ==
    SizingInit /\ [][SizingNext]_vars

SizesResolved ==
    opc = "open_engine"

\* C18: for any total_mem, the four computed block cache sizes add up to at
\* most total_mem.
C18_CachesWithinMemory ==
    (SizesResolved /\ config.cache = EmptyConfig.cache) =>
        block_cache["defaultcf"] + block_cache["writecf"]
            + block_cache["raftcf"] + block_cache["lockcf"] <= total_mem

\* C19 as stated: the raft cache is in [256 MiB, 2 GiB] and the lock cache in
\* [256 MiB, 1 GiB] for every total_mem and every config file.
C19_ClampedForEveryConfig ==
    /\ block_cache["raftcf"] # Unset =>
          (RAFTCF_MIN_MEM <= block_cache["raftcf"]
              /\ block_cache["raftcf"] <= RAFTCF_MAX_MEM)
    /\ block_cache["lockcf"] # Unset =>
          (LOCKCF_MIN_MEM <= block_cache["lockcf"]
              /\ block_cache["lockcf"] <= LOCKCF_MAX_MEM)

\* C19: for every total_mem, the raft cache is in [256 MiB, 2 GiB] when the
\* config file has no rocksdb.raftcf.block-cache-size and the lock cache is
\* in [256 MiB, 1 GiB] when it has no rocksdb.lockcf.block-cache-size; a
\* size that the file gives is used as it is.
C19_ClampedUnlessConfigured ==
    /\ block_cache["raftcf"] # Unset =>
          IF config.cache["raftcf"] = Unset
          THEN (RAFTCF_MIN_MEM <= block_cache["raftcf"]
                  /\ block_cache["raftcf"] <= RAFTCF_MAX_MEM)
          ELSE block_cache["raftcf"] = config.cache["raftcf"]
    /\ block_cache["lockcf"] # Unset =>
          IF config.cache["lockcf"] = Unset
          THEN (LOCKCF_MIN_MEM <= block_cache["lockcf"]
                  /\ block_cache["lockcf"] <= LOCKCF_MAX_MEM)
          ELSE block_cache["lockcf"] = config.cache["lockcf"]

C19_Witness ==
    /\ SizesResolved
    /\ config.cache["raftcf"] = Unset
    /\ config.cache["lockcf"] = Unset
    /\ total_mem > 100 * GB
    /\ block_cache["raftcf"] = RAFTCF_MAX_MEM
    /\ block_cache["lockcf"] = LOCKCF_MAX_MEM

\* A host with 32 CPUs and 64 GiB of memory, a config file without sizes.
ReferenceHost ==
    /\ SizesResolved
    /\ total_cpu_num = 32
    /\ total_mem = 64 * GB
    /\ config = EmptyConfig

\* C20 as stated: on the reference host end_point_concurrency is 25, the
\* default cache 16 GiB, the write cache 9 GiB, the raft cache 0.02 x 64 GiB
\* aligned down to 1 MiB and the lock cache 1 GiB.
C20_ReferenceHostStated ==
    ReferenceHost =>
        /\ end_point_concurrency = 25
        /\ block_cache["defaultcf"] = 16 * GB
        /\ block_cache["writecf"] = 9 * GB
        /\ block_cache["raftcf"] = 1310 * MB
        /\ block_cache["lockcf"] = GB

\* C20: on the reference host end_point_concurrency is 25, the default
\* cache 16 GiB, the write cache 0.15 x 64 GiB aligned down to 1 MiB
\* (9830 MiB), the raft cache 0.02 x 64 GiB aligned down to 1 MiB (1310 MiB)
\* and the lock cache 1 GiB.
C20_ReferenceHost ==
    ReferenceHost =>
        /\ end_point_concurrency = 25
        /\ block_cache["defaultcf"] = 16 * GB
        /\ block_cache["writecf"] = 9830 * MB
        /\ block_cache["raftcf"] = 1310 * MB
        /\ block_cache["lockcf"] = GB

C20_Witness ==
    /\ ReferenceHost
    /\ end_point_concurrency = 25
    /\ block_cache["lockcf"] = LOCKCF_MAX_MEM

\* C21: without server.end-point-concurrency in the config file,
\* end_point_concurrency is max(4, floor(0.8 x cpu_count)) for every
\* cpu_count >= 1; with it, the configured value is kept.
C21_EndPointsByCpu ==
    end_point_concurrency # Unset =>
        IF config.end_point = Unset
        THEN end_point_concurrency =
                (IF (total_cpu_num * 4) \div 5 > 4
                 THEN (total_cpu_num * 4) \div 5 ELSE 4)
        ELSE end_point_concurrency = config.end_point

----------------------------------------------------------------------------
\* Option resolution (src/src/bin/tikv-server.rs)

OptFrame ==
    UNCHANGED <<bootVars, monVars, timeVars, convVars, sizeVars, lookVars, metVars>>

\* The flag of an option, and the config keys read for it in turn.
FlagOf(o) ==
    CASE o = "log-level" -> "--log-level"
      [] o = "log-file" -> "--log-file"
      [] o = "addr" -> "--addr"
      [] o = "pd-endpoints" -> "--pd-endpoints"
      [] o = "capacity" -> "--capacity"
      [] o = "advertise-addr" -> "--advertise-addr"
      [] o = "labels" -> "--labels"
      [] o = "data-dir" -> "--data-dir"

KeysOf(o) ==
    CASE o = "log-level" -> <<"server.log-level">>
      [] o = "log-file" -> <<"server.log-file">>
      [] o = "addr" -> <<"server.addr">>
      [] o = "pd-endpoints" -> <<"pd.endpoints">>
      [] o = "capacity" -> <<"server.capacity">>
      [] o = "advertise-addr" -> <<"server.advertise-addr">>
      [] o = "labels" -> <<"server.labels">>
      [] o = "data-dir" -> <<"server.data-dir", "server.store">>

Flags ==
    {FlagOf(o) : o \in Options}

Keys ==
    UNION {{KeysOf(o)[i] : i \in 1..Len(KeysOf(o))} : o \in Options}

\* Texts are sequences of characters.
\* "10.0.0.1:9": a well-formed address with "0." at a later position.
ADDR_LATER_ZERO ==
    <<"1", "0", ".", "0", ".", "0", ".", "1", ":", "9">>

\* "0.0.0.0:9": a well-formed address that begins with "0.".
ADDR_CURRENT_NETWORK ==
    <<"0", ".", "0", ".", "0", ".", "0", ":", "9">>

\* "1.2.3.4:9": a well-formed address without "0.".
ADDR_PLAIN ==
    <<"1", ".", "2", ".", "3", ".", "4", ":", "9">>

\* "x": not an address.
ADDR_MALFORMED ==
    <<"x">>

\* tikv::server::DEFAULT_LISTENING_ADDR, "127.0.0.1:20160"
DEFAULT_LISTENING_ADDR ==
    <<"1", "2", "7", ".", "0", ".", "0", ".", "1", ":", "2", "0", "1", "6",
      "0">>

\* tikv::storage::TEMP_DIR
TEMP_DIR ==
    <<>>

\* The level init_log uses when none is given: "info".
DEFAULT_LOG_LEVEL ==
    <<"i", "n", "f", "o">>

AddressTexts ==
    {ADDR_LATER_ZERO, ADDR_CURRENT_NETWORK, ADDR_PLAIN, ADDR_MALFORMED}

IsAddressSlot(slot) ==
    slot \in {"--addr", "server.addr", "--advertise-addr",
              "server.advertise-addr"}

\* What a flag or a config key may hold: a flag a string; a key a value of
\* the option's type or of another type.
Choices(slot) ==
    IF slot \in Flags
    THEN IF IsAddressSlot(slot)
         THEN {[type |-> "String", text |-> t] : t \in AddressTexts}
         ELSE IF slot = "--capacity"
         THEN {[type |-> "String", text |-> <<"1">>]}
         ELSE {[type |-> "String", text |-> <<"c">>]}
    ELSE IF IsAddressSlot(slot)
         THEN {[type |-> "String", text |-> t] : t \in AddressTexts}
                 \cup {[type |-> "Integer", text |-> <<"7">>]}
         ELSE IF slot = "server.capacity"
         THEN {[type |-> "Integer", text |-> <<"2">>],
               [type |-> "Boolean", text |-> <<"t">>]}
         ELSE {[type |-> "String", text |-> <<"f">>],
               [type |-> "Integer", text |-> <<"7">>]}

AllChoices ==
    UNION {Choices(slot) : slot \in Flags \cup Keys}

\* The command lines and config files with at most n entries.
SettingsSamples(n) ==
    UNION {{g \in [S -> AllChoices] : \A slot \in S : g[slot] \in Choices(slot)} :
              S \in {T \in SUBSET (Flags \cup Keys) : Cardinality(T) <= n}}

\* matches.value_of(name): the flag's string, if given.
get_flag_string(name) ==
    IF name \in DOMAIN settings
    THEN Value("String", settings[name].text, "cli")
    ELSE None

\* lookup(config, key) for the key of an option: its value, if any.
LookupSetting(key) ==
    IF key \in DOMAIN settings
    THEN Value(settings[key].type, settings[key].text, "file")
    ELSE None

\* get_toml_string_opt: lookup(..).and_then(|val| val.as_str()); as_str is
\* None for a value that is not a string.
get_toml_string_opt(key) ==
    IF LookupSetting(key).type = "String" THEN LookupSetting(key) ELSE None

\* Option::or_else
OrElse(a, b) ==
    IF a.type # "None" THEN a ELSE b

Default(text) ==
    Value("String", text, "default")

\* util::config::check_addr: host:port with a host and a numeric port.
check_addr(a) ==
    \E i \in 2..(Len(a) - 1) :
        /\ a[i] = ":"
        /\ \A j \in 1..(i - 1) : a[j] # ":"
        /\ \A j \in (i + 1)..Len(a) :
              a[j] \in {"0", "1", "2", "3", "4", "5", "6", "7", "8", "9"}

\* addr.find(pat): the index from 0 of the first occurrence, -1 for None.
Find(a, pat) ==
    LET hits == {i \in 1..(Len(a) - Len(pat) + 1) :
                    SubSeq(a, i, i + Len(pat) - 1) = pat}
    IN  IF hits = {} THEN -1
        ELSE (CHOOSE i \in hits : \A j \in hits : i <= j) - 1

\* Mutant: "0." is forbidden wherever it occurs.
check_advertise_address_anywhere(a) ==
    check_addr(a) /\ Find(a, <<"0", ".">>) = -1

\* check_advertise_address: TRUE when it returns, FALSE when it exits.
check_advertise_address(a) ==
    check_addr(a) /\ Find(a, <<"0", ".">>) # 0

Fatal(option, kind) ==
    /\ rpc' = "exited"
    /\ odiag' = [option |-> option, kind |-> kind]
    /\ UNCHANGED <<settings, effective>>
    /\ OptFrame

Resolved(changes, next) ==
    /\ rpc' = next
    /\ effective' = [o \in Options |->
                        IF o \in DOMAIN changes THEN changes[o] ELSE effective[o]]
    /\ UNCHANGED <<settings, odiag>>
    /\ OptFrame

\* init_log: log-level and log-file from the flag, else server.log-level
\* and server.log-file, else "info" and the standard error.
OptInitLog ==
    /\ rpc = "init_log"
    /\ Resolved([o \in {"log-level", "log-file"} |->
                    IF o = "log-level"
                    THEN OrElse(OrElse(get_flag_string("--log-level"),
                                       get_toml_string_opt("server.log-level")),
                                Default(DEFAULT_LOG_LEVEL))
                    ELSE OrElse(OrElse(get_flag_string("--log-file"),
                                       get_toml_string_opt("server.log-file")),
                                Default(<<>>))],
                "addr")

\* main: addr from the flag, else server.addr, else DEFAULT_LISTENING_ADDR;
\* then check_addr.
OptAddr ==
    /\ rpc = "addr"
    /\ LET addr == OrElse(OrElse(get_flag_string("--addr"),
                                 get_toml_string_opt("server.addr")),
                          Default(DEFAULT_LISTENING_ADDR))
       IN  IF check_addr(addr.text)
           THEN Resolved([o \in {"addr"} |-> addr], "pd_endpoints")
           ELSE Fatal("addr", "invalid")

\* main: pd-endpoints from the flag, else pd.endpoints, else a panic.
OptPdEndpoints ==
    /\ rpc = "pd_endpoints"
    /\ LET pd == OrElse(get_flag_string("--pd-endpoints"),
                        get_toml_string_opt("pd.endpoints"))
       IN  IF pd.type # "None"
           THEN Resolved([o \in {"pd-endpoints"} |-> pd], "build_cfg")
           ELSE Fatal("pd-endpoints", "missing")

\* build_cfg: capacity from the flag, else server.capacity (an integer or
\* fatal), else the default kept; advertise-addr from the flag, else
\* server.advertise-addr (a string or fatal), else addr; then
\* check_advertise_address.
OptBuildCfg ==
    /\ rpc = "build_cfg"
    /\ LET flagCap == get_flag_string("--capacity")
           fileCap == LookupSetting("server.capacity")
           capacity == OrElse(OrElse(flagCap, fileCap), Default(<<>>))
           flagAdv == get_flag_string("--advertise-addr")
           fileAdv == LookupSetting("server.advertise-addr")
           advertise == OrElse(OrElse(flagAdv, fileAdv),
                               Default(effective["addr"].text))
       IN  IF flagCap.type = "None" /\ fileCap.type \notin {"None", "Integer", "String"}
           THEN Fatal("capacity", "wrong_type")
           ELSE IF flagAdv.type = "None" /\ fileAdv.type \notin {"None", "String"}
           THEN Fatal("advertise-addr", "wrong_type")
           ELSE IF ~check_advertise_address(advertise.text)
           THEN Fatal("advertise-addr", "invalid")
           ELSE Resolved([o \in {"capacity", "advertise-addr"} |->
                             IF o = "capacity" THEN capacity ELSE advertise],
                         "labels")

\* get_store_labels: labels from the flag, else server.labels, else "".
OptStoreLabels ==
    /\ rpc = "labels"
    /\ Resolved([o \in {"labels"} |->
                    OrElse(OrElse(get_flag_string("--labels"),
                                  get_toml_string_opt("server.labels")),
                           Default(<<>>))],
                "data_dir")

\* get_data_and_backup_dirs: data-dir from the flag, else server.data-dir,
\* else server.store, else TEMP_DIR.
OptDataDir ==
    /\ rpc = "data_dir"
    /\ Resolved([o \in {"data-dir"} |->
                    OrElse(OrElse(OrElse(get_flag_string("--data-dir"),
                                         get_toml_string_opt("server.data-dir")),
                                  get_toml_string_opt("server.store")),
                           Default(TEMP_DIR))],
                "resolved")

OptionsNext ==
    \/ OptInitLog
    \/ OptAddr
    \/ OptPdEndpoints
    \/ OptBuildCfg
    \/ OptStoreLabels
    \/ OptDataDir

OptionsInit ==
    /\ BootInit
    /\ MetricIdle
    /\ LookupIdle
    /\ MonitorIdle
    /\ InstantIdle
    /\ ConversionIdle
    /\ SizingIdle
    /\ \E given \in SettingsSamples(MaxSettings) : ArgsParsed(given)

SpecOptions ==
    OptionsInit /\ [][OptionsNext]_vars

\* The config file has a value under one of the keys of option o.
InFile(o) ==
    \E i \in 1..Len(KeysOf(o)) : KeysOf(o)[i] \in DOMAIN settings

\* C22: for each option that a flag and the config file can give, the
\* effective value is the flag's when the flag is given; the file's value is
\* used only when the flag is absent, and the built-in default only when
\* the flag and the file value are both absent.
C22_CommandLineFirst ==
    \A o \in Options :
        effective[o].type # "None" =>
            /\ FlagOf(o) \in DOMAIN settings =>
                  (effective[o].source = "cli"
                      /\ effective[o].text = settings[FlagOf(o)].text)
            /\ effective[o].source = "file" =>
                  (FlagOf(o) \notin DOMAIN settings
                      /\ \E i \in 1..Len(KeysOf(o)) :
                            /\ KeysOf(o)[i] \in DOMAIN settings
                            /\ settings[KeysOf(o)[i]].text = effective[o].text)
            /\ effective[o].source = "default" =>
                  (FlagOf(o) \notin DOMAIN settings /\ ~InFile(o))

\* C23: a string option whose config value is present but not a string is
\* fatal with a diagnostic naming the option and the expected type; it is
\* never resolved from the default or from a lower-priority source.
C23_WrongTypeIsFatal ==
    \A o \in Options \ {"capacity"} :
        (/\ FlagOf(o) \notin DOMAIN settings
         /\ KeysOf(o)[1] \in DOMAIN settings
         /\ settings[KeysOf(o)[1]].type # "String") =>
            /\ effective[o].type = "None"
            /\ (rpc = "exited" /\ odiag.option = o) => odiag.kind = "wrong_type"

\* The advertise address main arrives at: the flag's value, else the config
\* file's, else the listen address.
AdvertiseCandidate ==
    IF "--advertise-addr" \in DOMAIN settings
    THEN settings["--advertise-addr"].text
    ELSE IF "server.advertise-addr" \in DOMAIN settings
    THEN settings["server.advertise-addr"].text
    ELSE effective["addr"].text

BeginsWith(a, prefix) ==
    Len(a) >= Len(prefix) /\ SubSeq(a, 1, Len(prefix)) = prefix

\* C25: the effective advertise address is rejected with a fatal exit if and
\* only if it fails the syntactic address check or begins with "0."; with
\* "0." only at a later position it is accepted.
C25_AdvertiseGuard ==
    /\ (rpc = "exited" /\ odiag = [option |-> "advertise-addr", kind |-> "invalid"]) =>
          (~check_addr(AdvertiseCandidate)
              \/ BeginsWith(AdvertiseCandidate, <<"0", ".">>))
    /\ effective["advertise-addr"].type # "None" =>
          /\ effective["advertise-addr"].text = AdvertiseCandidate
          /\ check_addr(AdvertiseCandidate)
          /\ ~BeginsWith(AdvertiseCandidate, <<"0", ".">>)

C25_Witness ==
    /\ effective["advertise-addr"].source = "file"
    /\ effective["advertise-addr"].text = ADDR_LATER_ZERO
    /\ effective["addr"].text = ADDR_PLAIN

----------------------------------------------------------------------------
\* lookup (src/src/bin/tikv-server.rs)

LookupFrame ==
    UNCHANGED <<bootVars, monVars, timeVars, convVars, sizeVars, optVars, metVars>>

\* The names that tables and keys are made of.
TomlNames ==
    {"a", "b"}

\* Values that are not tables: an integer and a string.
TomlLeaves ==
    {[kind |-> "Integer", entries |-> <<>>],
     [kind |-> "String", entries |-> <<>>]}

RECURSIVE TomlValues(_)
\* The values that nest tables at most depth deep.
TomlValues(depth) ==
    IF depth = 0 THEN TomlLeaves
    ELSE TomlLeaves \cup
            {[kind |-> "Table", entries |-> e] :
                e \in UNION {[D -> TomlValues(depth - 1)] : D \in SUBSET TomlNames}}

\* What main may hold as config: a parsed file, which is a table, or the
\* placeholder.
Configs(depth) ==
    {v \in TomlValues(depth) : v.kind = "Table"} \cup {NoConfig}

\* key.split('.') of the keys with 1..parts parts.
SplitKeys(parts) ==
    UNION {[1..n -> TomlNames] : n \in 1..parts}

SomeValue(v) ==
    [found |-> TRUE, value |-> v]

NoValue ==
    [found |-> FALSE, value |-> NoConfig]

\* res.get(key): the entry of a table under the key; None for a missing
\* entry and for a value that is not a table.
TomlGet(res, key) ==
    IF res.kind = "Table" /\ key \in DOMAIN res.entries
    THEN SomeValue(res.entries[key])
    ELSE NoValue

RECURSIVE lookup_skipping(_, _)
\* Mutant: a part of the key that is not found is skipped.
lookup_skipping(res, keys) ==
    IF keys = <<>> THEN SomeValue(res)
    ELSE IF TomlGet(res, Head(keys)).found
    THEN lookup_skipping(TomlGet(res, Head(keys)).value, Tail(keys))
    ELSE lookup_skipping(res, Tail(keys))

RECURSIVE lookup(_, _)
\* lookup(config, key): descends from config by each part of the key in
\* turn and returns None at the first part that is not found.
lookup(res, keys) ==
    IF keys = <<>> THEN SomeValue(res)
    ELSE IF TomlGet(res, Head(keys)).found
    THEN lookup(TomlGet(res, Head(keys)).value, Tail(keys))
    ELSE NoValue

Lookup ==
    /\ lop = "none"
    /\ lop' = "lookup"
    /\ lres' = lookup(lconfig, lkey)
    /\ UNCHANGED <<lconfig, lkey>>
    /\ LookupFrame

LookupNext ==
    \/ Lookup

LookupInit ==
    /\ BootInit
    /\ MetricIdle
    /\ MonitorIdle
    /\ InstantIdle
    /\ ConversionIdle
    /\ SizingIdle
    /\ OptionsIdle
    /\ \E value \in Configs(MaxDepth), key \in SplitKeys(MaxKeyParts) :
          LookupArguments(value, key)

SpecLookup ==
    LookupInit /\ [][LookupNext]_vars

RECURSIVE PathValues(_)
\* Every key path that exists in a value, with the value nested under it.
PathValues(v) ==
    {<<<<>>, v>>} \cup
        (IF v.kind # "Table" THEN {}
         ELSE UNION {{<<<<name>> \o pv[1], pv[2]>> : pv \in PathValues(v.entries[name])} :
                        name \in DOMAIN v.entries})

PathExists(v, path) ==
    \E pv \in PathValues(v) : pv[1] = path

\* C24: lookup returns the value nested under the key path if and only if
\* every prefix of the path exists in the config, otherwise None; with the
\* placeholder for no config file every lookup returns None.
C24_LookupIffPrefixes ==
    lop = "lookup" =>
        /\ lres.found <=>
              \A n \in 1..Len(lkey) : PathExists(lconfig, SubSeq(lkey, 1, n))
        /\ lres.found => <<lkey, lres.value>> \in PathValues(lconfig)
        /\ lconfig = NoConfig => ~lres.found

C24_Witness ==
    /\ lop = "lookup"
    /\ lres.found
    /\ Len(lkey) = 2
    /\ lres.value.kind = "String"

----------------------------------------------------------------------------
\* initial_metric (src/src/bin/tikv-server.rs)

MetricFrame ==
    UNCHANGED <<bootVars, monVars, timeVars, convVars, sizeVars, optVars,
                lookVars>>

\* The metric sections: interval absent or an integer; address and job
\* absent, a string, or of another type.
MetricSections ==
    [interval : {[given |-> FALSE, value |-> 0]}
                    \cup [given : {TRUE}, value : (0 - MaxInterval)..MaxInterval],
     address : {[type |-> "None", text |-> <<>>],
                [type |-> "String", text |-> <<>>],
                [type |-> "String", text |-> <<"p">>],
                [type |-> "Integer", text |-> <<"7">>]},
     job : {[type |-> "None", text |-> <<>>],
            [type |-> "String", text |-> <<"j">>],
            [type |-> "Integer", text |-> <<"7">>]}]

RECURSIVE Decimal(_)
\* format!("{}", n) for an unsigned n: its decimal digits.
Decimal(n) ==
    LET digit == <<"0", "1", "2", "3", "4", "5", "6", "7", "8", "9">>[(n % 10) + 1]
    IN  IF n < 10 THEN <<digit>> ELSE Append(Decimal(n \div 10), digit)

\* (i as u64) for an i64 i: 2^64 + i for a negative i (here i >= -616, so
\* that only the last digit of u64::MAX + 1 + i differs from u64::MAX's).
AsU64(i) ==
    IF i >= 0 THEN ToLimbs(i) ELSE [U64_MAX EXCEPT ![7] = 616 + i]

\* get_toml_int(config, "metric.interval", Some(0))
MetricInterval ==
    IF metric.interval.given THEN metric.interval.value ELSE 0

\* The text of "metric.job", default "tikv".
TIKV_JOB ==
    <<"t", "i", "k", "v">>

\* initial_metric(config, Some(node.id())): returns when the interval is 0
\* or the address empty; else starts the pusher under the job suffixed with
\* "_" and the id. A value of the wrong type exits.
StartMetricPusher ==
    /\ mpc = "initial_metric"
    /\ IF MetricInterval = 0
       THEN mpc' = "returned" /\ pusher' = pusher
       ELSE IF metric.address.type \notin {"None", "String"}
       THEN mpc' = "exited" /\ pusher' = pusher
       ELSE IF metric.address.text = <<>>
       THEN mpc' = "returned" /\ pusher' = pusher
       ELSE IF metric.job.type \notin {"None", "String"}
       THEN mpc' = "exited" /\ pusher' = pusher
       ELSE /\ mpc' = "returned"
            /\ pusher' = [started |-> TRUE,
                          interval |-> AsU64(MetricInterval),
                          address |-> metric.address.text,
                          job |-> (IF metric.job.type = "None" THEN TIKV_JOB
                                   ELSE metric.job.text)
                                      \o <<"_">> \o Decimal(node_id)]
    /\ UNCHANGED <<metric, node_id>>
    /\ MetricFrame

MetricNext ==
    \/ StartMetricPusher

MetricInit ==
    /\ BootInit
    /\ MonitorIdle
    /\ InstantIdle
    /\ ConversionIdle
    /\ SizingIdle
    /\ OptionsIdle
    /\ LookupIdle
    /\ \E section \in MetricSections, id \in 1..MaxStoreId :
          NodeStarted(section, id)

SpecMetric ==
    MetricInit /\ [][MetricNext]_vars

\* C26: the metrics pusher is started if and only if metric.interval > 0
\* and metric.address is non-empty, and then under the job metric.job
\* followed by "_" and the store id; for metric.interval <= 0 or an empty
\* address no pusher is started.
C26_PusherIffConfigured ==
    mpc = "returned" =>
        /\ pusher.started <=>
              (MetricInterval > 0 /\ metric.address.text # <<>>)
        /\ pusher.started =>
              pusher.job = (IF metric.job.type = "None" THEN TIKV_JOB
                            ELSE metric.job.text) \o <<"_">> \o Decimal(node_id)

\* C27: with no compaction-pri in the config file, the default and write
\* column families are opened with compaction priority 3: the default the
\* builder sets is the value passed to the engine.
C27_BuilderDefaultPriority ==
    SizesResolved =>
        \A cf \in {"defaultcf", "writecf"} :
            config.pri[cf] = Unset =>
                compaction_pri[cf] = DefaultCompactionPri(cf)

====
